---- MODULE Spec2Model ----
(***************************************************************************)
(* Model of the Rabbitmq connector of                                      *)
(* digital_twins/incubator-NuRV-fmu-monitor-service/src/rabbitmq.py.       *)
(*                                                                         *)
(* The connector object has three mutable fields (connection, channel,     *)
(* queue_name).  Everything else it does is a call on the pika channel or  *)
(* connection, so the broker side those calls act on is part of the state: *)
(* which connections and channels are open, which queues exist, who owns   *)
(* them, their bindings and their pending messages.  Every public method   *)
(* is one action; the broker calls it issues are recorded, in order, in    *)
(* lastOp.calls.  start_consuming() blocks in a loop: entering it is one   *)
(* action and every delivery it hands to a callback is another.            *)
(***************************************************************************)
EXTENDS Integers, Sequences, FiniteSets, TLC

\* ---------------------------------------------------------------- bounds
MaxCalls == 5      \* method calls over the life of the connector
MaxTracked == 3    \* length of a tracked list that the caller filled in

\* ------------------------------------------------------------- constants
RoutingKeys == {"a", "b"}
\* server-generated queue names, in order of generation (each call declares at most one)
QNames == <<"q1", "q2", "q3", "q4", "q5", "q6", "q7", "q8">>
QNameSet == {QNames[i] : i \in 1..MaxCalls}
ExchangeName == "events"                       \* self.exchange_name
NoQueue == "-"
NoKey == "-"

\* Messages handed to send_message, by the Python type that decides how json treats them.
Messages == {[t |-> "int"], [t |-> "tuple"], [t |-> "set"], [t |-> "nan"]}
NoBody == [json |-> "none"]

\* json.dumps(message).encode("ascii"): a tuple is written as a JSON array, a set is not
\* serialisable (TypeError), and float('nan') is written as the token NaN (allow_nan is left
\* at its default).
Encodable(m) == m.t # "set"
Encode(m) ==
    IF m.t = "int" THEN [json |-> "number"]
    ELSE IF m.t = "nan" THEN [json |-> "NaN"]
    ELSE [json |-> "array"]
\* json.loads(body.decode("ascii")): a JSON array is read back as a list, the token NaN as
\* float('nan').
Decode(body) ==
    IF body.json = "number" THEN [t |-> "int"]
    ELSE IF body.json = "NaN" THEN [t |-> "nan"]
    ELSE [t |-> "list"]
NoMessage == [t |-> "None"]

VARIABLES
    connection,   \* self.connection: 0 is None, else the id of a connection
    channel,      \* self.channel: 0 is None, else the id of a channel
    queue_name,   \* self.queue_name: the list of tracked queue names
    broker,       \* the broker side: open connections/channels, queues
    lastOp,       \* the method call that has just run, until it returns to the caller: its
                  \* name, error, broker calls issued, routing key, queue (returned, or
                  \* polled), message (sent, or returned), and the tracked names it
                  \* found; Idle between calls
    scope,        \* scoped acquisition: "none", "entered", "exited"
    scopeCloses,  \* executions of close() since the scope was entered, up to its exit
    alive,        \* FALSE once the destructor has run
    hasClosed,    \* TRUE once a close() has completed without error
    cleanups,     \* per queue name, the queue_unbind and queue_delete calls issued so far
    consuming,    \* TRUE while the caller is inside start_consuming()
    deliveries,   \* per queue name, the bodies the broker has pushed to its consumer so far
                  \* (routed) and the deliveries handed to decode_msg so far (handed)
    nCalls        \* number of method calls so far

vars == <<connection, channel, queue_name, broker, lastOp, scope, scopeCloses, alive, hasClosed,
          cleanups, consuming, deliveries, nCalls>>

\* --------------------------------------------------------------- broker
\* msgs: the messages held in the queue; inbox: the messages the broker has pushed to the
\* consumer of the queue (auto_ack: they have left the queue) and that wait in the client
\* for the consume loop.
AbsentQueue == [exists |-> FALSE, owner |-> 0, keys |-> {}, msgs |-> <<>>, consumer |-> FALSE,
                inbox |-> <<>>]

InitBroker ==
    [co |-> {},                                \* open connections
     ch |-> {},                                \* open channels (channel c belongs to connection c)
     qs |-> [q \in QNameSet |-> AbsentQueue],  \* queues
     declared |-> {},                          \* open channels that have declared the exchange
     nConn |-> 0,                              \* connections opened so far
     nQueue |-> 0]                             \* names generated so far

\* The environment's choice for one method call: which of the broker calls it issues is
\* refused (0: none).  A refused channel call is an AMQP channel exception: the broker
\* closes the channel.
NoFail == 0
Fails(n) == 0..n

\* The calls that name an exchange all name self.exchange_name.
ExchangeOf(m) ==
    IF m \in {"exchange_declare", "basic_publish", "queue_bind", "queue_unbind"}
    THEN ExchangeName ELSE NoKey

\* One call on the pika channel (or connection) ch, as recorded in lastOp.calls.
BrokerCall(m, ch, q, key, body) ==
    [m |-> m, ch |-> ch, exchange |-> ExchangeOf(m), q |-> q, key |-> key, body |-> body]

\* A call on a queue that is exclusive to another, still open, connection is refused by the
\* broker (RESOURCE_LOCKED); basic_get on a queue that does not exist is refused (NOT_FOUND).
Refused(b, ch, m, q) ==
    \/ /\ m \in {"queue_bind", "queue_unbind", "queue_delete", "basic_get", "basic_consume"}
       /\ q \in QNameSet
       /\ b.qs[q].exists
       /\ b.qs[q].owner # ch
    \/ /\ m \in {"basic_get", "basic_consume", "queue_bind"}
       /\ q \in QNameSet
       /\ ~b.qs[q].exists

\* basic_publish routes the body to every queue bound under the routing key; a queue with a
\* consumer pushes it on to the consumer at once.
Route(qrec, key, body) ==
    IF qrec.exists /\ key \in qrec.keys
    THEN IF qrec.consumer
         THEN [qrec EXCEPT !.inbox = Append(@, body)]
         ELSE [qrec EXCEPT !.msgs = Append(@, body)]
    ELSE qrec

\* A channel is closed: its consumers are cancelled, and a queue declared auto_delete goes
\* with its last consumer.
CloseChannel(b, ch) ==
    [b EXCEPT !.ch = @ \ {ch},
              !.declared = @ \ {ch},
              !.qs = [q \in QNameSet |-> IF b.qs[q].exists /\ b.qs[q].owner = ch /\ b.qs[q].consumer
                                         THEN AbsentQueue ELSE b.qs[q]]]

\* What an accepted channel call does on the broker.
Effect(b, c) ==
    CASE c.m = "exchange_declare" -> [b EXCEPT !.declared = @ \cup {c.ch}]
      [] c.m = "queue_declare" ->
           [b EXCEPT !.qs[c.q] = [exists |-> TRUE, owner |-> c.ch, keys |-> {},
                                  msgs |-> <<>>, consumer |-> FALSE, inbox |-> <<>>],
                     !.nQueue = @ + 1]
      [] c.m = "queue_bind" -> [b EXCEPT !.qs[c.q].keys = @ \cup {c.key}]
      [] c.m = "queue_unbind" ->
           \* no routing key is given, so the binding named is not the one made by queue_bind
           IF b.qs[c.q].exists THEN [b EXCEPT !.qs[c.q].keys = @ \ {c.key}] ELSE b
      [] c.m = "queue_delete" -> [b EXCEPT !.qs[c.q] = AbsentQueue]
      [] c.m = "basic_publish" -> [b EXCEPT !.qs = [q \in QNameSet |-> Route(b.qs[q], c.key, c.body)]]
      [] c.m = "basic_get" ->
           IF b.qs[c.q].msgs # <<>> THEN [b EXCEPT !.qs[c.q].msgs = Tail(@)] ELSE b
      [] c.m = "basic_consume" ->
           [b EXCEPT !.qs[c.q].consumer = TRUE, !.qs[c.q].inbox = b.qs[c.q].msgs,
                     !.qs[c.q].msgs = <<>>]
      [] c.m = "channel_close" -> CloseChannel(b, c.ch)
      [] OTHER -> b

\* The state threaded through one method call.
Start(fail) == [b |-> broker, calls |-> <<>>, err |-> "none", fail |-> fail]

\* self.channel.<m>(...) : AttributeError when the channel is None, ChannelWrongStateError
\* when it is closed (nothing is sent), else the call is issued and accepted or refused.
Call(st, ch, m, q, key, body) ==
    IF st.err # "none" THEN st
    ELSE IF ch = 0 THEN [st EXCEPT !.err = "AttributeError"]
    ELSE IF ch \notin st.b.ch THEN [st EXCEPT !.err = "ChannelWrongStateError"]
    ELSE LET c == BrokerCall(m, ch, q, key, body)
             k == Len(st.calls) + 1
         IN  IF Refused(st.b, ch, m, q)
             THEN [st EXCEPT !.calls = Append(@, c), !.err = "BrokerError",
                             !.b = CloseChannel(@, ch)]
             ELSE IF st.fail = k
             THEN [st EXCEPT !.calls = Append(@, c), !.err = "BrokerError",
                             !.b = CloseChannel(@, ch)]
             ELSE [st EXCEPT !.calls = Append(@, c), !.b = Effect(@, c)]

\* Closing a connection closes its channel; the broker removes the exclusive queues it owns.
DropConnection(b, c) ==
    [b EXCEPT !.co = @ \ {c},
              !.ch = @ \ {c},
              !.declared = @ \ {c},
              !.qs = [q \in QNameSet |-> IF b.qs[q].exists /\ b.qs[q].owner = c
                                         THEN AbsentQueue ELSE b.qs[q]]]

\* self.connection.close()
ConnectionClose(st, conn) ==
    IF st.err # "none" THEN st
    ELSE IF conn = 0 THEN [st EXCEPT !.err = "AttributeError"]
    ELSE IF conn \notin st.b.co THEN [st EXCEPT !.err = "ConnectionWrongStateError"]
    ELSE LET c == BrokerCall("connection_close", conn, NoQueue, NoKey, NoBody)
             k == Len(st.calls) + 1
         IN  IF st.fail = k
             THEN [st EXCEPT !.calls = Append(@, c), !.err = "BrokerError"]
             ELSE [st EXCEPT !.calls = Append(@, c), !.b = DropConnection(@, conn)]

\* ------------------------------------------------------------- methods
\* Each method is an operator from the fields (self) and the threaded state to the new
\* fields, the threaded state and the return value.
Self == [connection |-> connection, channel |-> channel, queue_name |-> queue_name]
Result(self, st, ret) == [self |-> self, st |-> st, ret |-> ret]

Range(s) == {s[i] : i \in 1..Len(s)}
\* list(set(names)): the distinct names, in an order the hashing decides.
Orders(S) == {s \in [1..Cardinality(S) -> S] : \A i, j \in 1..Cardinality(S) : s[i] = s[j] => i = j}

\* connect_to_server: pika.BlockingConnection(parameters), connection.channel(),
\* channel.exchange_declare(...).  Each assignment happens only if its call returned.
connect_steps(self, st) ==
    LET id == st.b.nConn + 1
        open == BrokerCall("connection_open", id, NoQueue, NoKey, NoBody)
        chopen == BrokerCall("channel_open", id, NoQueue, NoKey, NoBody)
    IN  IF st.fail = 1
        THEN Result(self, [st EXCEPT !.calls = <<open>>, !.err = "ConnectionError"], NoQueue)
        ELSE LET self1 == [self EXCEPT !.connection = id]
                 st1 == [st EXCEPT !.calls = <<open>>, !.b.co = @ \cup {id}, !.b.nConn = id]
             IN  IF st.fail = 2
                 THEN Result(self1, [st1 EXCEPT !.calls = Append(@, chopen), !.err = "BrokerError"],
                             NoQueue)
                 ELSE LET self2 == [self1 EXCEPT !.channel = id]
                          st2 == [st1 EXCEPT !.calls = Append(@, chopen), !.b.ch = @ \cup {id}]
                      IN  Result(self2,
                                 Call(st2, self2.channel, "exchange_declare", NoQueue, NoKey, NoBody),
                                 NoQueue)

\* A faulty variant of connect_to_server, which forgets the old connection and channel before it dials
connect_to_server_resets(self, st) ==
    connect_steps([self EXCEPT !.connection = 0, !.channel = 0], st)

\* A faulty variant of connect_to_server, which does not declare the exchange
connect_without_exchange(self, st) ==
    LET id == st.b.nConn + 1
        open == BrokerCall("connection_open", id, NoQueue, NoKey, NoBody)
        chopen == BrokerCall("channel_open", id, NoQueue, NoKey, NoBody)
    IN  IF st.fail \in {1, 2} THEN connect_steps(self, st)
        ELSE Result([self EXCEPT !.connection = id, !.channel = id],
                    [st EXCEPT !.calls = <<open, chopen>>, !.b.co = @ \cup {id},
                               !.b.ch = @ \cup {id}, !.b.nConn = id],
                    NoQueue)

connect_to_server(self, st) == connect_steps(self, st)

\* send_message: the body is encoded while the arguments are evaluated, before basic_publish
\* is entered.
send_message(self, st, routing_key, message) ==
    IF self.channel = 0 THEN Result(self, [st EXCEPT !.err = "AttributeError"], NoQueue)
    ELSE IF ~Encodable(message) THEN Result(self, [st EXCEPT !.err = "TypeError"], NoQueue)
    ELSE Result(self, Call(st, self.channel, "basic_publish", NoQueue, routing_key, Encode(message)),
                NoQueue)

\* A faulty variant of get_message, which returns the newest pending message
get_message_newest(self, st, name) ==
    LET st1 == Call(st, self.channel, "basic_get", name, NoKey, NoBody)
        msgs == st.b.qs[name].msgs
    IN  Result(self, st1,
               IF st1.err = "none" /\ msgs # <<>> THEN Decode(msgs[Len(msgs)]) ELSE NoMessage)

\* get_message: basic_get with auto_ack, then the body decoded, or None.
get_message(self, st, name) ==
    LET st1 == Call(st, self.channel, "basic_get", name, NoKey, NoBody)
        msgs == st.b.qs[name].msgs
    IN  Result(self, st1,
               IF st1.err = "none" /\ msgs # <<>> THEN Decode(Head(msgs)) ELSE NoMessage)

\* declare_local_queue: queue_declare(queue=""), queue_bind, then the name is appended.
declare_local_queue(self, st, routing_key) ==
    LET created_queue_name == QNames[st.b.nQueue + 1]
        st1 == Call(st, self.channel, "queue_declare", created_queue_name, NoKey, NoBody)
        st2 == Call(st1, self.channel, "queue_bind", created_queue_name, routing_key, NoBody)
    IN  IF st2.err = "none"
        THEN Result([self EXCEPT !.queue_name = Append(@, created_queue_name)], st2,
                    created_queue_name)
        ELSE Result(self, st2, NoQueue)

\* the loop of queues_delete over the de-duplicated names
RECURSIVE delete_each(_, _, _)
delete_each(st, ch, names) ==
    IF names = <<>> THEN st
    ELSE LET name == Head(names)
             st1 == Call(st, ch, "queue_unbind", name, name, NoBody)
             st2 == Call(st1, ch, "queue_delete", name, NoKey, NoBody)
         IN  delete_each(st2, ch, Tail(names))

\* A faulty variant of queues_delete, which iterates over the tracked list as it is
queues_delete_as_tracked(self, st, order) ==
    Result(self, delete_each(st, self.channel, self.queue_name), NoQueue)

\* queues_delete: self.queue_name = list(set(self.queue_name)), then unbind and delete each.
queues_delete(self, st, order) ==
    LET self1 == [self EXCEPT !.queue_name = order]
    IN  Result(self1, delete_each(st, self1.channel, self1.queue_name), NoQueue)

\* A faulty variant of close, which closes the channel before it cleans the queues up
close_channel_first(self, st, order) ==
    LET st1 == Call(st, self.channel, "channel_close", NoQueue, NoKey, NoBody)
        r2 == queues_delete(self, st1, order)
        st3 == ConnectionClose(r2.st, r2.self.connection)
    IN  Result(r2.self, st3, NoQueue)

\* A faulty variant of close, which closes the channel and the connection also when the
\* cleanup of the queues raised, and then raises the error of the cleanup
close_in_any_case(self, st, order) ==
    LET r1 == queues_delete(self, st, order)
        st2 == Call([r1.st EXCEPT !.err = "none"], r1.self.channel, "channel_close",
                    NoQueue, NoKey, NoBody)
        st3 == ConnectionClose([st2 EXCEPT !.err = "none"], r1.self.connection)
    IN  Result(r1.self,
               [st3 EXCEPT !.err = IF r1.st.err # "none" THEN r1.st.err
                                   ELSE IF st2.err # "none" THEN st2.err ELSE @],
               NoQueue)

\* close: queues_delete(), channel.close(), connection.close().
close(self, st, order) ==
    LET r1 == queues_delete(self, st, order)
        st2 == Call(r1.st, r1.self.channel, "channel_close", NoQueue, NoKey, NoBody)
        st3 == ConnectionClose(st2, r1.self.connection)
    IN  Result(r1.self, st3, NoQueue)

\* subscribe: declare_local_queue, then basic_consume on the created queue.
subscribe(self, st, routing_key) ==
    LET r1 == declare_local_queue(self, st, routing_key)
        st2 == Call(r1.st, r1.self.channel, "basic_consume", r1.ret, NoKey, NoBody)
    IN  Result(r1.self, st2, IF st2.err = "none" THEN r1.ret ELSE NoQueue)

\* the queues that have a consumer on the channel ch
Consumers(b, ch) ==
    {q \in QNameSet : b.qs[q].exists /\ b.qs[q].consumer /\ b.qs[q].owner = ch}

\* start_consuming: channel.start_consuming() refuses a closed channel, then serves the
\* consumers of the channel for as long as there are any; it sends nothing to the broker.
start_consuming(self, st) ==
    IF self.channel = 0 THEN Result(self, [st EXCEPT !.err = "AttributeError"], NoQueue)
    ELSE IF self.channel \notin st.b.ch
    THEN Result(self, [st EXCEPT !.err = "ChannelWrongStateError"], NoQueue)
    ELSE Result(self, st, NoQueue)

\* A faulty variant of deliver, which leaves a delivery in place when its callback raised
deliver_keeps_failed(qrec, outcome) ==
    IF outcome = "raises" THEN qrec ELSE [qrec EXCEPT !.inbox = Tail(@)]

\* One delivery taken by the consume loop (auto_ack=True): it is gone from the pending
\* deliveries when decode_msg is entered, whatever decode_msg and the callback then do.
deliver(qrec, outcome) == [qrec EXCEPT !.inbox = Tail(@)]

\* decode_msg returns, or raises what json.loads or on_message_callback raised
Outcomes == {"returns", "raises"}

\* __del__: close() only when there is a channel and neither it nor the connection is closed.
del_calls_close(self, b) ==
    /\ self.channel # 0
    /\ self.channel \in b.ch
    /\ self.connection \in b.co

\* ---------------------------------------------------------------- state
\* The lifecycle state of the connector, read off its fields.
State ==
    IF connection = 0 THEN "UNCONNECTED"
    ELSE IF connection \in broker.co /\ channel \in broker.ch THEN "CONNECTED"
    ELSE IF connection \notin broker.co THEN "CLOSED"
    ELSE "PARTIAL"

\* No call is in progress.
Idle == [op |-> "none", err |-> "none", ret |-> NoQueue, msg |-> NoMessage,
         calls |-> <<>>, key |-> NoKey, closed |-> FALSE, names |-> <<>>]

Init ==
    /\ connection = 0
    /\ channel = 0
    /\ queue_name = <<>>
    /\ broker = InitBroker
    /\ lastOp = Idle
    /\ scope = "none"
    /\ scopeCloses = 0
    /\ alive = TRUE
    /\ hasClosed = FALSE
    /\ cleanups = [q \in QNameSet |-> [unbind |-> 0, delete |-> 0]]
    /\ consuming = FALSE
    /\ deliveries = [q \in QNameSet |-> [routed |-> <<>>, handed |-> <<>>]]
    /\ nCalls = 0

\* how many times the calls cs issue m on the queue q
Issued(cs, m, q) == Cardinality({i \in 1..Len(cs) : cs[i].m = m /\ cs[i].q = q})

\* the bodies that a method call has made the broker push to the consumer of a queue
Pushed(old, new) ==
    IF Len(new.inbox) > Len(old.inbox)
    THEN SubSeq(new.inbox, Len(old.inbox) + 1, Len(new.inbox))
    ELSE <<>>

\* The fields and the broker after a method call, and the record of the call.  closed tells
\* whether the call executed close().
Finish(op, r, key, msg, closed) ==
    /\ connection' = r.self.connection
    /\ channel' = r.self.channel
    /\ queue_name' = r.self.queue_name
    /\ broker' = r.st.b
    /\ lastOp' = [op |-> op, err |-> r.st.err, ret |-> r.ret, msg |-> msg,
                  calls |-> r.st.calls, key |-> key, closed |-> closed, names |-> queue_name]
    /\ scopeCloses' = IF closed /\ scope = "entered" THEN scopeCloses + 1 ELSE scopeCloses
    /\ hasClosed' = (hasClosed \/ (closed /\ r.st.err = "none"))
    /\ cleanups' = [q \in QNameSet |->
                       [unbind |-> cleanups[q].unbind + Issued(r.st.calls, "queue_unbind", q),
                        delete |-> cleanups[q].delete + Issued(r.st.calls, "queue_delete", q)]]
    /\ consuming' = (op = "start_consuming" /\ r.st.err = "none"
                         /\ Consumers(r.st.b, r.self.channel) # {})
    /\ deliveries' = [q \in QNameSet |->
                         [deliveries[q] EXCEPT !.routed = @ \o Pushed(broker.qs[q], r.st.b.qs[q])]]
    /\ nCalls' = nCalls + 1

\* A method is called when the previous call has returned (the connector is used from one
\* thread); the finalizer is the last thing that happens to the object.
Usable == alive /\ lastOp = Idle /\ nCalls < MaxCalls

\* The call returns to its caller, with its value or its exception.
Return ==
    /\ lastOp # Idle
    /\ ~consuming
    /\ lastOp' = Idle
    /\ UNCHANGED <<connection, channel, queue_name, broker, scope, scopeCloses, alive, hasClosed,
                   cleanups, consuming, deliveries, nCalls>>

\* ---------------------------------------------------------------- actions
ConnectToServer ==
    /\ Usable
    /\ \E fail \in Fails(3) :
          /\ Finish("connect_to_server", connect_to_server(Self, Start(fail)), NoKey, NoMessage, FALSE)
    /\ UNCHANGED <<scope, alive>>

\* __enter__: connect_to_server(); the scope is entered only if it returned.
Enter ==
    /\ Usable
    /\ scope = "none"
    /\ \E fail \in Fails(3) :
          /\ LET r == connect_to_server(Self, Start(fail))
             IN  /\ Finish("__enter__", r, NoKey, NoMessage, FALSE)
                 /\ scope' = IF r.st.err = "none" THEN "entered" ELSE scope
    /\ UNCHANGED alive

\* __exit__: close(), whatever exc_type is (a body that raised, or one that finished).
Exit ==
    /\ Usable
    /\ scope = "entered"
    /\ \E fail \in Fails(2 * Cardinality(Range(queue_name)) + 2), order \in Orders(Range(queue_name)),
          raised \in BOOLEAN :
          Finish("__exit__", close(Self, Start(fail), order), NoKey,
                 IF raised THEN [t |-> "exc"] ELSE NoMessage, TRUE)
    /\ scope' = "exited"
    /\ UNCHANGED alive

Close ==
    /\ Usable
    /\ \E fail \in Fails(2 * Cardinality(Range(queue_name)) + 2), order \in Orders(Range(queue_name)) :
          Finish("close", close(Self, Start(fail), order), NoKey, NoMessage, TRUE)
    /\ UNCHANGED <<scope, alive>>

QueuesDelete ==
    /\ Usable
    /\ \E fail \in Fails(2 * Cardinality(Range(queue_name))), order \in Orders(Range(queue_name)) :
          Finish("queues_delete", queues_delete(Self, Start(fail), order), NoKey, NoMessage, FALSE)
    /\ UNCHANGED <<scope, alive>>

\* __del__
Del ==
    /\ Usable
    /\ IF del_calls_close(Self, broker)
       THEN \E fail \in Fails(2 * Cardinality(Range(queue_name)) + 2),
                  order \in Orders(Range(queue_name)) :
                  Finish("__del__", close(Self, Start(fail), order), NoKey, NoMessage, TRUE)
       ELSE Finish("__del__", Result(Self, Start(NoFail), NoQueue), NoKey, NoMessage, FALSE)
    /\ alive' = FALSE
    /\ UNCHANGED scope

SendMessage ==
    /\ Usable
    /\ \E fail \in Fails(1), routing_key \in RoutingKeys, message \in Messages :
          /\ Finish("send_message", send_message(Self, Start(fail), routing_key, message),
                    routing_key, message, FALSE)
    /\ UNCHANGED <<scope, alive>>

\* polled: a queue the broker has named, or one it has not
GetMessage ==
    /\ Usable
    /\ \E fail \in Fails(1), name \in {QNames[i] : i \in 1..(broker.nQueue + 1)} :
          LET r == get_message(Self, Start(fail), name)
          IN  Finish("get_message", Result(r.self, r.st, name), NoKey, r.ret, FALSE)
    /\ UNCHANGED <<scope, alive>>

DeclareLocalQueue ==
    /\ Usable
    /\ \E fail \in Fails(2), routing_key \in RoutingKeys :
          Finish("declare_local_queue", declare_local_queue(Self, Start(fail), routing_key),
                 routing_key, NoMessage, FALSE)
    /\ UNCHANGED <<scope, alive>>

Subscribe ==
    /\ Usable
    /\ \E fail \in Fails(3), routing_key \in RoutingKeys :
          Finish("subscribe", subscribe(Self, Start(fail), routing_key), routing_key, NoMessage, FALSE)
    /\ UNCHANGED <<scope, alive>>

StartConsuming ==
    /\ Usable
    /\ Finish("start_consuming", start_consuming(Self, Start(NoFail)), NoKey, NoMessage, FALSE)
    /\ UNCHANGED <<scope, alive>>

\* One turn of the consume loop: the next delivery of a consumer of the channel goes to
\* decode_msg, which decodes the body and calls on_message_callback; an exception of the
\* callback leaves start_consuming() through the loop.  lastOp shows the queue, the decoded
\* message and the outcome.
Dispatch ==
    /\ consuming
    /\ channel \in broker.ch
    /\ \E q \in Consumers(broker, channel), outcome \in Outcomes :
          /\ broker.qs[q].inbox # <<>>
          /\ LET body == Head(broker.qs[q].inbox)
             IN  /\ broker' = [broker EXCEPT !.qs[q] = deliver(@, outcome)]
                 /\ deliveries' = [deliveries EXCEPT
                                      ![q].handed = Append(@, [body |-> body, msg |-> Decode(body),
                                                               outcome |-> outcome])]
                 /\ lastOp' = [lastOp EXCEPT !.ret = q, !.msg = Decode(body),
                                             !.err = IF outcome = "raises" THEN "CallbackError"
                                                     ELSE "none"]
          /\ consuming' = (outcome = "returns")
    /\ UNCHANGED <<connection, channel, queue_name, scope, scopeCloses, alive, hasClosed,
                   cleanups, nCalls>>

\* The channel is lost under the consume loop: start_consuming() raises.
LoopBreaks ==
    /\ consuming
    /\ channel \notin broker.ch
    /\ consuming' = FALSE
    /\ lastOp' = [lastOp EXCEPT !.err = "ChannelClosed"]
    /\ UNCHANGED <<connection, channel, queue_name, broker, scope, scopeCloses, alive, hasClosed,
                   cleanups, deliveries, nCalls>>

\* The connection drops (network loss, or the client object of a replaced connection is
\* collected): the broker cleans up the exclusive queues it owned.
ConnectionDrops ==
    /\ \E c \in broker.co : broker' = DropConnection(broker, c)
    /\ UNCHANGED <<connection, channel, queue_name, lastOp, scope, scopeCloses, alive, hasClosed,
                   cleanups, consuming, deliveries, nCalls>>

\* The connector used through its methods alone.
Next ==
    \/ ConnectToServer
    \/ Close
    \/ QueuesDelete
    \/ Del
    \/ SendMessage
    \/ GetMessage
    \/ DeclareLocalQueue
    \/ Subscribe
    \/ StartConsuming
    \/ Dispatch
    \/ LoopBreaks
    \/ Return
    \/ ConnectionDrops

Spec == Init /\ [][Next]_vars

\* The connector used in a with statement as well: __enter__, any methods in and after the
\* body, __exit__.
NextScope ==
    \/ Enter
    \/ Exit
    \/ ConnectToServer
    \/ Close
    \/ QueuesDelete
    \/ Del
    \/ SendMessage
    \/ GetMessage
    \/ DeclareLocalQueue
    \/ Subscribe
    \/ StartConsuming
    \/ Dispatch
    \/ LoopBreaks
    \/ Return
    \/ ConnectionDrops

SpecScope == Init /\ [][NextScope]_vars

\* The cleanup applied to any tracked list.  self.queue_name is a public list: here the
\* connector is connected and the list holds names of its queues in whatever way the caller's
\* bookkeeping left them, a name possibly more than once.
TrackedLists ==
    UNION {[1..n -> {QNames[1], QNames[2]}] : n \in 0..MaxTracked}

InitTracked ==
    /\ connection = 1
    /\ channel = 1
    /\ queue_name \in TrackedLists
    /\ broker = [co |-> {1}, ch |-> {1}, declared |-> {1}, nConn |-> 1, nQueue |-> 2,
                 qs |-> [q \in QNameSet |->
                           IF q \in Range(queue_name)
                           THEN [exists |-> TRUE, owner |-> 1, keys |-> {"a"},
                                 msgs |-> <<>>, consumer |-> FALSE, inbox |-> <<>>]
                           ELSE AbsentQueue]]
    /\ lastOp = Idle
    /\ scope = "none"
    /\ scopeCloses = 0
    /\ alive = TRUE
    /\ hasClosed = FALSE
    /\ cleanups = [q \in QNameSet |-> [unbind |-> 0, delete |-> 0]]
    /\ consuming = FALSE
    /\ deliveries = [q \in QNameSet |-> [routed |-> <<>>, handed |-> <<>>]]
    /\ nCalls = 0

NextTracked ==
    \/ QueuesDelete
    \/ Close
    \/ Return

SpecTracked == InitTracked /\ [][NextTracked]_vars

\* ---------------------------------------------------------------- claims
\* in cs, name is unbound, then deleted, before position i
CleanedBefore(cs, name, i) ==
    \E j, k \in 1..Len(cs) :
        /\ j < k /\ k < i
        /\ cs[j].m = "queue_unbind" /\ cs[j].q = name
        /\ cs[k].m = "queue_delete" /\ cs[k].q = name
Exists(b) == {q \in QNameSet : b.qs[q].exists}

\* C1: in every execution of close() (called directly or from __del__), the unbind and the
\* delete of every tracked queue are issued before the channel is closed, and the channel is
\* closed before the connection: no close() closes the channel or the connection while a
\* tracked queue has not been unbound and deleted.
C1_CloseOrdering ==
    lastOp.closed =>
        \A i \in 1..Len(lastOp.calls) :
            /\ lastOp.calls[i].m \in {"channel_close", "connection_close"} =>
                   \A name \in Range(queue_name) : CleanedBefore(lastOp.calls, name, i)
            /\ lastOp.calls[i].m = "connection_close" =>
                   \E j \in 1..Len(lastOp.calls) : j < i /\ lastOp.calls[j].m = "channel_close"

C1_Witness ==
    /\ lastOp.op = "close"
    /\ lastOp.err = "none"
    /\ Cardinality(Range(queue_name)) = 2
    /\ Len(lastOp.calls) = 6
    /\ lastOp.calls[6].m = "connection_close"

\* C2: close() on a connector that is already closed is a no-op: it issues no broker call,
\* raises no error and leaves the connector as it was.
C2_CloseOnClosedIsNoOp ==
    [][(hasClosed /\ State = "CLOSED" /\ lastOp' # lastOp /\ lastOp'.op = "close") =>
          /\ lastOp'.err = "none"
          /\ lastOp'.calls = <<>>
          /\ connection' = connection /\ channel' = channel
          /\ Range(queue_name') = Range(queue_name)
          /\ broker' = broker]_vars

\* C3: once close() has completed, every send_message, get_message and subscribe fails with
\* the closed-connection error (pika's ChannelWrongStateError), issues no broker call and
\* leaves the connector and the broker as they were.  (Stated leniently: a message that
\* cannot be encoded may fail with the encoding error instead.)
C3_UseAfterCloseFails ==
    [][(hasClosed /\ lastOp = Idle /\ lastOp'.op \in {"send_message", "get_message", "subscribe"}) =>
          /\ \/ lastOp'.err = "ChannelWrongStateError"
             \/ lastOp'.op = "send_message" /\ ~Encodable(lastOp'.msg) /\ lastOp'.err = "TypeError"
          /\ lastOp'.calls = <<>>
          /\ broker' = broker
          /\ State' = State /\ connection' = connection /\ channel' = channel]_vars

\* C4: CLOSED is terminal: no operation takes a connector that close() has brought to CLOSED
\* back to CONNECTED.
C4_ClosedIsTerminal ==
    [][(hasClosed /\ State = "CLOSED") => State' # "CONNECTED"]_vars

\* C5: in every reachable state at most one connection of the connector is open at the broker,
\* and at most one channel.
C5_AtMostOneLive ==
    /\ Cardinality(broker.co) <= 1
    /\ Cardinality(broker.ch) <= 1

\* C6: when the scope has been left, close() has been executed exactly once since it was
\* entered, whatever the body did.
C6_ClosedExactlyOncePerScope ==
    scope = "exited" => scopeCloses = 1

\* C7: a connect that fails, at whatever step, leaves the connector UNCONNECTED, holding
\* neither a connection nor a channel.
C7_FailedConnectLeavesUnconnected ==
    (lastOp.op = "connect_to_server" /\ lastOp.err # "none") =>
        /\ State = "UNCONNECTED"
        /\ connection = 0
        /\ channel = 0

\* C7 (amended): a connect that fails to open the connection surfaces ConnectionError and
\* leaves the connection, the channel, the tracked names and the broker as they were; so a
\* connector that never connected stays UNCONNECTED with neither connection nor channel.
C7_FailedOpenChangesNothing ==
    [][(lastOp' # lastOp /\ lastOp'.op = "connect_to_server" /\ lastOp'.err = "ConnectionError") =>
          /\ connection' = connection
          /\ channel' = channel
          /\ queue_name' = queue_name
          /\ broker' = broker
          /\ (State = "UNCONNECTED" => State' = "UNCONNECTED" /\ connection' = 0 /\ channel' = 0)]_vars

C7_Witness ==
    /\ lastOp.op = "connect_to_server"
    /\ lastOp.err = "ConnectionError"
    /\ State = "UNCONNECTED"
    /\ connection = 0
    /\ channel = 0

\* C8: a connector torn down while its channel is not closed has close() run by __del__, and
\* afterwards no tracked queue is left, the channel and the connection are closed, and
\* neither an open connection nor a queue of the connector is left at the broker.
C8_TeardownLeavesNothing ==
    [][(alive /\ ~alive' /\ channel # 0 /\ channel \in broker.ch) =>
          /\ lastOp'.closed
          /\ \A name \in Range(queue_name') : ~broker'.qs[name].exists
          /\ channel' \notin broker'.ch
          /\ connection' \notin broker'.co
          /\ broker'.co = {}
          /\ Exists(broker') = {}]_vars

\* C9: __del__ never raises: an error of the close() it runs is not propagated.
C9_DestructorNeverRaises ==
    lastOp.op = "__del__" => lastOp.err = "none"

\* C10: every queue the connector has created on the broker is tracked, also after calls that
\* failed part-way; and a successful declare_local_queue or subscribe returns a name that no
\* earlier call returned, bound under the routing key of the call.
C10_RegistryTracksEveryQueue ==
    /\ \A i \in 1..broker.nQueue : QNames[i] \in Range(queue_name)
    /\ (lastOp.op \in {"declare_local_queue", "subscribe"} /\ lastOp.err = "none") =>
          /\ Cardinality({i \in 1..Len(queue_name) : queue_name[i] = lastOp.ret}) = 1
          /\ lastOp.ret = QNames[broker.nQueue]
          /\ broker.qs[lastOp.ret].exists => lastOp.key \in broker.qs[lastOp.ret].keys

\* C11: after a close() that completed on a connected connector, none of the queues the
\* connector created exists on the broker any more, and so none of their bindings.
C11_CloseLeavesNoQueue ==
    (lastOp.closed /\ lastOp.err = "none") =>
        \A i \in 1..broker.nQueue :
            /\ ~broker.qs[QNames[i]].exists
            /\ broker.qs[QNames[i]].keys = {}

\* C12: cleanup is at-most-once: over the whole life of the connector, whatever sequence of
\* queues_delete, close, scope exit and destructor runs, at most one queue_unbind and at most
\* one queue_delete are issued to the broker for each queue name.
C12_CleanupAtMostOnce ==
    \A q \in QNameSet :
        /\ cleanups[q].unbind <= 1
        /\ cleanups[q].delete <= 1

\* C13: one run of queues_delete de-duplicates the tracked names before it iterates: also
\* when a name is tracked twice or more, the run issues at most one queue_unbind and at most
\* one queue_delete for it, and the queue_unbind of a name comes before its queue_delete.
C13_DedupBeforeIteration ==
    lastOp.op \in {"queues_delete", "close"} =>
        \A q \in Range(lastOp.names) :
            /\ Issued(lastOp.calls, "queue_unbind", q) <= 1
            /\ Issued(lastOp.calls, "queue_delete", q) <= 1
            /\ \A k \in 1..Len(lastOp.calls) :
                  (lastOp.calls[k].m = "queue_delete" /\ lastOp.calls[k].q = q) =>
                      \E j \in 1..(k - 1) :
                          lastOp.calls[j].m = "queue_unbind" /\ lastOp.calls[j].q = q

C13_Witness ==
    /\ lastOp.op = "queues_delete"
    /\ lastOp.err = "none"
    /\ Len(lastOp.names) = 3
    /\ Cardinality(Range(lastOp.names)) = 2
    /\ Len(lastOp.calls) = 4
    /\ Len(queue_name) = 2

\* C14: queues_delete does not raise because a tracked queue has already been removed on the
\* broker side (the connector itself never deleted it): the name is treated as absent and the
\* cleanup goes on to the other names; only an error of the broker is propagated.
C14_AbsentQueueTolerated ==
    [][(/\ lastOp = Idle
        /\ lastOp'.op = "queues_delete"
        /\ \E q \in Range(queue_name) : ~broker.qs[q].exists /\ cleanups[q].delete = 0) =>
          /\ lastOp'.err \in {"none", "BrokerError"}
          /\ lastOp'.err = "none" =>
                \A q \in Range(queue_name) :
                    /\ Issued(lastOp'.calls, "queue_unbind", q) = 1
                    /\ Issued(lastOp'.calls, "queue_delete", q) = 1]_vars

\* C15: get_message on a connected connector, for a queue of the connector, is a single
\* basic_get (it does not wait): when the broker answers and the queue is empty it returns None
\* and neither the queue nor the connector changes; when the queue is not empty it returns the
\* decoded head and exactly that message leaves the queue, the others staying in order.  The
\* only error is a refusal by the broker.
C15_PollSingleFetch ==
    [][(/\ lastOp = Idle
        /\ lastOp'.op = "get_message"
        /\ State = "CONNECTED"
        /\ broker.qs[lastOp'.ret].exists
        /\ broker.qs[lastOp'.ret].owner = channel) =>
          LET q == lastOp'.ret
              msgs == broker.qs[q].msgs
          IN  /\ Len(lastOp'.calls) = 1
              /\ lastOp'.calls[1].m = "basic_get"
              /\ lastOp'.calls[1].q = q
              /\ lastOp'.err \in {"none", "BrokerError"}
              /\ connection' = connection /\ channel' = channel /\ queue_name' = queue_name
              /\ lastOp'.err = "none" =>
                    IF msgs = <<>>
                    THEN lastOp'.msg = NoMessage /\ broker' = broker /\ State' = State
                    ELSE /\ lastOp'.msg = Decode(Head(msgs))
                         /\ broker' = [broker EXCEPT !.qs[q].msgs = Tail(msgs)]]_vars

C15_Witness ==
    /\ lastOp.op = "get_message"
    /\ lastOp.err = "none"
    /\ lastOp.msg = [t |-> "int"]
    /\ State = "CONNECTED"
    /\ broker.qs[lastOp.ret].exists
    /\ broker.qs[lastOp.ret].msgs = <<[json |-> "array"]>>

\* the bodies of the deliveries handed to decode_msg for the queue q, in order
HandedBodies(q) == [i \in 1..Len(deliveries[q].handed) |-> deliveries[q].handed[i].body]

\* C16: after subscribe(routing_key, cb) returned a queue and send_message(routing_key, m)
\* published under the same key on the same connector, the consume loop calls cb with the
\* decoded m, exactly once.  In a form a finite run can refute: cb is called with decoded
\* bodies in the order they were published for the queue, none twice, and when
\* start_consuming() returns without an error no subscription that is still in place has
\* one of them waiting.
C16_SubscribedMessageDispatched ==
    \A q \in QNameSet :
        /\ Len(deliveries[q].handed) <= Len(deliveries[q].routed)
        /\ HandedBodies(q) = SubSeq(deliveries[q].routed, 1, Len(deliveries[q].handed))
        /\ \A i \in 1..Len(deliveries[q].handed) :
              deliveries[q].handed[i].msg = Decode(deliveries[q].routed[i])
        /\ (/\ lastOp.op = "start_consuming" /\ ~consuming /\ lastOp.err = "none"
            /\ broker.qs[q].exists /\ broker.qs[q].consumer) =>
              Len(deliveries[q].handed) = Len(deliveries[q].routed)

\* C17: subscriptions are auto-acknowledged and nothing is redelivered: a delivery is taken
\* off the pending deliveries of its queue at the moment it is handed to decode_msg, whether
\* decode_msg then returns or raises; so every body pushed to a subscription is either still
\* waiting or has been handed over exactly once, never both and never twice.
C17_NoRedelivery ==
    [][\A q \in QNameSet :
          /\ Len(deliveries'[q].handed) > Len(deliveries[q].handed) =>
                /\ broker.qs[q].inbox # <<>>
                /\ deliveries'[q].handed = Append(deliveries[q].handed,
                                                  deliveries'[q].handed[Len(deliveries'[q].handed)])
                /\ deliveries'[q].handed[Len(deliveries'[q].handed)].body = Head(broker.qs[q].inbox)
                /\ broker'.qs[q].inbox = Tail(broker.qs[q].inbox)
          /\ broker'.qs[q].exists =>
                deliveries'[q].routed = HandedBodies(q)' \o broker'.qs[q].inbox]_vars

C17_Witness ==
    \E q \in QNameSet :
        /\ Len(deliveries[q].routed) = 1
        /\ Len(deliveries[q].handed) = 1
        /\ deliveries[q].handed[1].outcome = "raises"
        /\ broker.qs[q].exists
        /\ broker.qs[q].inbox = <<>>
        /\ lastOp.op = "start_consuming"
        /\ consuming
        /\ nCalls = 5

\* C18: send_message on a connected connector with a message that JSON cannot represent (a
\* set, a NaN) fails with the encoding error (TypeError of json.dumps) before anything is sent:
\* no basic_publish is issued and the connection, the channel, the tracked names, the
\* lifecycle state and the broker are as before.
C18_UnencodableIsRejected ==
    [][(/\ lastOp = Idle
        /\ lastOp'.op = "send_message"
        /\ State = "CONNECTED"
        /\ lastOp'.msg.t \in {"set", "nan"}) =>
          /\ lastOp'.err = "TypeError"
          /\ lastOp'.calls = <<>>
          /\ broker' = broker
          /\ connection' = connection /\ channel' = channel /\ queue_name' = queue_name
          /\ State' = State]_vars

\* C19: setup is ordered.  Every queue declare, bind, unbind, delete, publish, poll and
\* consume that the connector issues goes over a connection that connect_to_server() opened
\* and a channel on which it declared the exchange; on a connector that never connected these
\* operations fail and nothing reaches the broker; and every publish, bind and unbind names
\* the exchange fixed at construction.
C19_SetupOrdered ==
    [][(lastOp = Idle /\ lastOp' # Idle) =>
          /\ \A i \in 1..Len(lastOp'.calls) :
                LET c == lastOp'.calls[i]
                IN  /\ c.m \in {"queue_declare", "queue_bind", "queue_unbind", "queue_delete",
                                "basic_publish", "basic_get", "basic_consume"} =>
                          /\ c.ch \in broker.co
                          /\ c.ch \in broker.declared
                    /\ c.m \in {"basic_publish", "queue_bind", "queue_unbind"} =>
                          c.exchange = ExchangeName
          /\ (/\ connection = 0
              /\ lastOp'.op \in {"send_message", "get_message", "declare_local_queue",
                                 "subscribe", "start_consuming"}) =>
                /\ lastOp'.err = "AttributeError"
                /\ lastOp'.calls = <<>>
                /\ broker' = broker]_vars

C19_Witness ==
    /\ lastOp.op = "subscribe"
    /\ lastOp.err = "none"
    /\ Len(lastOp.calls) = 3
    /\ lastOp.calls[1].ch = 2
    /\ lastOp.calls[3].m = "basic_consume"
    /\ 2 \in broker.declared
    /\ 1 \in broker.co

\* C20: close() does not recover from an error.  When the unbind or the delete of a tracked
\* queue raises during close(), the error leaves close() at once: the broker calls issued are
\* the unbind and delete of the names before it, in order, and the call that raised; nothing
\* is issued for the later names; neither the channel close nor the connection close is
\* issued, and the open connections are the ones open before.  The tracked names are the
\* same after close() as before, when it completed and when it raised.
C20_CloseHasNoRecovery ==
    [][(lastOp = Idle /\ lastOp'.closed) =>
          /\ Range(queue_name') = Range(queue_name)
          /\ (/\ lastOp'.err # "none"
              /\ queue_name # <<>>
              /\ \A i \in 1..Len(lastOp'.calls) : lastOp'.calls[i].m # "channel_close") =>
                /\ Len(lastOp'.calls) <= 2 * Len(queue_name')
                /\ \A i \in 1..Len(lastOp'.calls) :
                      /\ lastOp'.calls[i].q = queue_name'[(i + 1) \div 2]
                      /\ lastOp'.calls[i].m = IF i % 2 = 1 THEN "queue_unbind" ELSE "queue_delete"
                /\ broker'.co = broker.co
                /\ connection' = connection
                /\ channel' = channel
                /\ hasClosed' = hasClosed]_vars

C20_Witness ==
    /\ lastOp.op = "close"
    /\ lastOp.err = "BrokerError"
    /\ Len(queue_name) = 2
    /\ Len(lastOp.calls) = 2
    /\ lastOp.calls[2].m = "queue_delete"
    /\ broker.qs[queue_name[2]].exists
    /\ connection \in broker.co
    /\ channel \notin broker.ch

====
